---- MODULE Spec2Model ----
(***************************************************************************)
(* The analytics engine of the admin dashboard (the `analytics` memo of    *)
(* AdminDashboard), the dashboard state it is computed from, the driver    *)
(* table and the handlers of the dashboard, and the App component that     *)
(* loads the collections and chooses the view.                             *)
(*                                                                         *)
(* Numbers.  Prices and counts are integers; the commission rate is a      *)
(* rational num/den and Math.round is computed exactly on rationals.       *)
(* Times are counted in ticks of 1/TicksPerHour hour of local time since   *)
(* 1970-01-01 00:00; the code counts milliseconds, and every comparison    *)
(* it makes (>=, calendar fields) is preserved by the change of unit.      *)
(***************************************************************************)
EXTENDS Integers, Sequences, FiniteSets, TLC

VARIABLES
    bookings,    \* the `bookings` prop: the collection the store returned
    drivers,     \* the `drivers` prop: the drivers the store returned
    settings,    \* the `settings` state of AdminDashboard (commissionRate)
    timeRange,   \* the `timeRange` state of AdminDashboard
    clock,       \* the wall clock: what `new Date()` would return now
    now,         \* the `now` captured by the last run of the memo
    analytics,   \* the memoised summary
    db,          \* the store behind services/db: settings, tours, drivers, bookings
    activeTab,   \* the `activeTab` state of AdminDashboard
    localDrivers,   \* the `localDrivers` state: an array and the storage it lives in
    driverSortDir,  \* the `driverSortDir` state of AdminDashboard
    callStatus,  \* the call of the store a handler made last: the handler,
                 \* whether the promise is pending, resolved or rejected, and
                 \* the argument of a pending call
    alerts,      \* the alert() that call has led to: none, success or failure
    currentView, \* the `currentView` state of App
    isDataLoaded,   \* the `isDataLoaded` state of App
    loggedInDriverId,  \* the `loggedInDriverId` state of App (Undefined for null)
    tours,       \* the `tours` state of App
    systemSettings, \* the `systemSettings` state of App
    loads,       \* the runs of initData that are awaiting a fetch
    loadCount,   \* the number of runs of initData started so far
    loadedBy     \* which run of initData set each collection of App, and the
                 \* last started of the runs whose fetches all resolved

tableVars == <<activeTab, localDrivers, driverSortDir>>
callVars == <<callStatus, alerts>>
appVars == <<currentView, isDataLoaded, loggedInDriverId, tours, systemSettings,
             loads, loadCount, loadedBy>>

vars == <<bookings, drivers, settings, timeRange, clock, now, analytics, db,
          tableVars, callVars, appVars>>

----------------------------------------------------------------------------
(* Bounds of the model. *)

TicksPerHour == 1
MaxTimeLen == 3
MaxMoneyLen == 3
MaxGroupAdds == 3
MaxTrendAdds == 3
MaxDashLen == 2
MaxDrivers == 2
MaxSettingsLen == 1
MaxLoads == 3

(* Program constants. *)
TopN == 5
TrendN == 10

----------------------------------------------------------------------------
(* JavaScript values: undefined, numbers and strings. *)

Undefined == [t |-> "undefined", n |-> 0, s |-> ""]
Num(n) == [t |-> "number", n |-> n, s |-> ""]
Str(s) == [t |-> "string", n |-> 0, s |-> s]

(* The result of a numeric conversion: NaN or an integer. *)
NaN == [nan |-> TRUE, n |-> 0]
Finite(n) == [nan |-> FALSE, n |-> n]

(* ToBoolean: undefined, 0 and "" are falsy. *)
Truthy(v) ==
    /\ v.t # "undefined"
    /\ ~(v.t = "number" /\ v.n = 0)
    /\ ~(v.t = "string" /\ v.s = "")

(* StringToNumber on the strings of the model, none of which is a         *)
(* numeral: "" is 0, any other text is NaN.                                *)
StringToNumber(s) ==
    CASE s = "" -> Finite(0)
      [] OTHER -> NaN

(* Number(x) *)
ToNumber(v) ==
    CASE v.t = "undefined" -> NaN
      [] v.t = "number" -> Finite(v.n)
      [] OTHER -> StringToNumber(v.s)

(* Number(x) || 0 : NaN and 0 are falsy, so both give 0. *)
NumberOrZero(v) ==
    LET x == ToNumber(v) IN IF x.nan \/ x.n = 0 THEN 0 ELSE x.n

(* a === b on numbers: NaN equals nothing. *)
StrictEq(a, b) == ~a.nan /\ ~b.nan /\ a.n = b.n

(* GreaterEq with > written for >=. *)
GreaterEq_Strict(a, b) == ~a.nan /\ ~b.nan /\ a.n > b.n

(* a >= b on numbers (and on Dates, compared by time value): false on NaN. *)
GreaterEq(a, b) == ~a.nan /\ ~b.nan /\ a.n >= b.n

(* MathRound with Math.floor written for Math.round. *)
MathRound_Floor(num, den) == num \div den

(* Math.round on the rational num/den, den > 0: floor(x + 1/2). *)
MathRound(num, den) == (2 * num + den) \div (2 * den)

----------------------------------------------------------------------------
(* Dates.  A Date is its time value: NaN (Invalid Date) or a tick count.   *)

TicksPerDay == 24 * TicksPerHour

(* new Date(v): a number is the time value; a creation timestamp the store *)
(* serialised is carried as its time value; undefined and text that is no  *)
(* date give Invalid Date.                                                 *)
NewDate(v) ==
    CASE v.t = "number" -> Finite(v.n)
      [] OTHER -> NaN

(* Day(t) and the civil calendar of the time value (YearFromTime,          *)
(* MonthFromTime, DateFromTime of local time).                             *)
DayNumber(t) == t \div TicksPerDay

CivilFromDays(days) ==
    LET z == days + 719468
        era == z \div 146097
        doe == z - era * 146097
        yoe == (doe - doe \div 1460 + doe \div 36524 - doe \div 146096) \div 365
        doy == doe - (365 * yoe + yoe \div 4 - yoe \div 100)
        mp == (5 * doy + 2) \div 153
        d == doy - (153 * mp + 2) \div 5 + 1
        m == IF mp < 10 THEN mp + 3 ELSE mp - 9
        y == yoe + era * 400 + (IF m <= 2 THEN 1 ELSE 0)
    IN [year |-> y, month |-> m - 1, date |-> d]

GetFullYear(d) == IF d.nan THEN NaN ELSE Finite(CivilFromDays(DayNumber(d.n)).year)
GetMonth(d) == IF d.nan THEN NaN ELSE Finite(CivilFromDays(DayNumber(d.n)).month)
GetDate(d) == IF d.nan THEN NaN ELSE Finite(CivilFromDays(DayNumber(d.n)).date)

(* new Date(now.getTime() - ms) *)
DateMinus(d, ticks) == IF d.nan THEN NaN ELSE Finite(d.n - ticks)

WeekWindow == 7 * 24 * TicksPerHour
MonthWindow == 30 * 24 * TicksPerHour

----------------------------------------------------------------------------
(* Arrays and objects. *)

Min(a, b) == IF a < b THEN a ELSE b

(* Array.prototype.slice(0, n) *)
Slice(seq, n) == SubSeq(seq, 1, Min(n, Len(seq)))

(* Array.prototype.sort with a comparator that orders by an integer key,   *)
(* keys[i] being the key of items[i]: ascending in the key, and stable     *)
(* (elements with equal keys keep their order).                            *)
StableSortAsc(items, keys) ==
    LET Before(i, j) == keys[i] < keys[j] \/ (keys[i] = keys[j] /\ i < j)
        Pos(i) == 1 + Cardinality({j \in 1..Len(items) : Before(j, i)})
        At(p) == CHOOSE i \in 1..Len(items) : Pos(i) = p
    IN [p \in 1..Len(items) |-> items[At(p)]]

(* StableSortDesc with the comparator (a, b) => a.key - b.key. *)
StableSortDesc_Ascending(items, keys) == StableSortAsc(items, keys)

(* sort((a, b) => b.key - a.key): descending in the key, stable. *)
StableSortDesc(items, keys) ==
    StableSortAsc(items, [i \in 1..Len(keys) |-> 0 - keys[i]])

(* A property key that is an array index (a canonical decimal numeral),    *)
(* as its value; -1 for any other key.                                     *)
ArrayIndex(key) ==
    CASE key = "3" -> 3
      [] key = "7" -> 7
      [] key = "12" -> 12
      [] key = "2024" -> 2024
      [] OTHER -> -1

(* An object used as a map is the sequence of its own [key, value]         *)
(* properties in creation order.  OwnEntries is the order in which         *)
(* Object.values and Object.entries enumerate them: array-index keys       *)
(* first, ascending, then the other keys in creation order.                *)
OwnEntries(obj) ==
    LET IsIdx(e) == ArrayIndex(e.key) >= 0
        idx == SelectSeq(obj, IsIdx)
        rest == SelectSeq(obj, LAMBDA e : ~IsIdx(e))
    IN StableSortAsc(idx, [i \in 1..Len(idx) |-> ArrayIndex(idx[i].key)]) \o rest

HasOwn(obj, key) == \E i \in 1..Len(obj) : obj[i].key = key

GetOwn(obj, key) == obj[CHOOSE i \in 1..Len(obj) : obj[i].key = key].value

(* obj[key] = value *)
PutOwn(obj, key, value) ==
    IF HasOwn(obj, key)
    THEN [i \in 1..Len(obj) |->
            IF obj[i].key = key THEN [key |-> key, value |-> value] ELSE obj[i]]
    ELSE Append(obj, [key |-> key, value |-> value])

----------------------------------------------------------------------------
(* The analytics engine. *)

(* InTimeRange without the comparison of the months under TODAY. *)
InTimeRange_NoMonth(b, range, nowDate) ==
    LET bookingDate == NewDate(b.createdAt) IN
    IF range = "ALL" THEN TRUE
    ELSE IF range = "TODAY" THEN
        /\ StrictEq(GetDate(bookingDate), GetDate(nowDate))
        /\ StrictEq(GetFullYear(bookingDate), GetFullYear(nowDate))
    ELSE IF range = "WEEK" THEN
        GreaterEq(bookingDate, DateMinus(nowDate, WeekWindow))
    ELSE IF range = "MONTH" THEN
        GreaterEq(bookingDate, DateMinus(nowDate, MonthWindow))
    ELSE TRUE

(* InTimeRange with the windows of WEEK and MONTH exchanged. *)
InTimeRange_WindowsSwapped(b, range, nowDate) ==
    LET bookingDate == NewDate(b.createdAt) IN
    IF range = "ALL" THEN TRUE
    ELSE IF range = "TODAY" THEN
        /\ StrictEq(GetDate(bookingDate), GetDate(nowDate))
        /\ StrictEq(GetMonth(bookingDate), GetMonth(nowDate))
        /\ StrictEq(GetFullYear(bookingDate), GetFullYear(nowDate))
    ELSE IF range = "WEEK" THEN
        GreaterEq(bookingDate, DateMinus(nowDate, MonthWindow))
    ELSE IF range = "MONTH" THEN
        GreaterEq(bookingDate, DateMinus(nowDate, WeekWindow))
    ELSE TRUE

(* InTimeRange with ALL filtered like MONTH. *)
InTimeRange_AllIsMonth(b, range, nowDate) ==
    LET bookingDate == NewDate(b.createdAt) IN
    IF range = "TODAY" THEN
        /\ StrictEq(GetDate(bookingDate), GetDate(nowDate))
        /\ StrictEq(GetMonth(bookingDate), GetMonth(nowDate))
        /\ StrictEq(GetFullYear(bookingDate), GetFullYear(nowDate))
    ELSE IF range = "WEEK" THEN
        GreaterEq(bookingDate, DateMinus(nowDate, WeekWindow))
    ELSE GreaterEq(bookingDate, DateMinus(nowDate, MonthWindow))

(* The predicate of bookings.filter: is booking b in the time range?       *)
InTimeRange(b, range, nowDate) ==
    LET bookingDate == NewDate(b.createdAt) IN
    IF range = "ALL" THEN TRUE
    ELSE IF range = "TODAY" THEN
        /\ StrictEq(GetDate(bookingDate), GetDate(nowDate))
        /\ StrictEq(GetMonth(bookingDate), GetMonth(nowDate))
        /\ StrictEq(GetFullYear(bookingDate), GetFullYear(nowDate))
    ELSE IF range = "WEEK" THEN
        GreaterEq(bookingDate, DateMinus(nowDate, WeekWindow))
    ELSE IF range = "MONTH" THEN
        GreaterEq(bookingDate, DateMinus(nowDate, MonthWindow))
    ELSE TRUE

FilteredBookings(bs, range, nowDate) ==
    SelectSeq(bs, LAMBDA b : InTimeRange(b, range, nowDate))

(* IsConfirmed without the COMPLETED bookings. *)
IsConfirmed_OnlyConfirmed(b) == b.status = "CONFIRMED"

IsConfirmed(b) == b.status = "CONFIRMED" \/ b.status = "COMPLETED"

(* Confirmed without the filter on the status. *)
Confirmed_AnyStatus(filtered) == filtered

Confirmed(filtered) == SelectSeq(filtered, IsConfirmed)

Pending(filtered) == SelectSeq(filtered, LAMBDA b : b.status = "PENDING")

Cancelled(filtered) == SelectSeq(filtered, LAMBDA b : b.status = "CANCELLED")

(* confirmed.reduce((sum, b) => sum + (Number(b.numericPrice) || 0), 0) *)
RECURSIVE TotalGross(_)
TotalGross(confirmed) ==
    IF confirmed = <<>> THEN 0
    ELSE TotalGross(SubSeq(confirmed, 1, Len(confirmed) - 1))
            + NumberOrZero(confirmed[Len(confirmed)].numericPrice)

(* settings?.commissionRate !== undefined ? settings.commissionRate : 0.13 *)
DefaultCommission == [t |-> "number", num |-> 13, den |-> 100]

(* Commission with 0 written for the default 0.13. *)
Commission_ZeroDefault(st) ==
    IF st.commissionRate.t # "undefined" THEN st.commissionRate
    ELSE [t |-> "number", num |-> 0, den |-> 1]

Commission(st) ==
    IF st.commissionRate.t # "undefined" THEN st.commissionRate
    ELSE DefaultCommission

(* TotalCommission with a minimum commission of 1. *)
TotalCommission_MinimumFee(totalGross, commission) ==
    LET c == MathRound(totalGross * commission.num, commission.den)
    IN IF c < 1 THEN 1 ELSE c

(* Math.round(totalGross * commission) *)
TotalCommission(totalGross, commission) ==
    MathRound(totalGross * commission.num, commission.den)

(* NetRevenue with the operands exchanged. *)
NetRevenue_Swapped(totalGross, totalCommission) == totalCommission - totalGross

NetRevenue(totalGross, totalCommission) == totalGross - totalCommission

(* Aov with Math.floor written for Math.round. *)
Aov_Floor(totalGross, confirmedLength) ==
    IF confirmedLength > 0 THEN totalGross \div confirmedLength ELSE 0

(* confirmed.length > 0 ? Math.round(totalGross / confirmed.length) : 0 *)
Aov(totalGross, confirmedLength) ==
    IF confirmedLength > 0 THEN MathRound(totalGross, confirmedLength) ELSE 0

(* HasDriver without the test of the driver name. *)
HasDriver_IdOnly(b) == Truthy(b.driverId)

(* Is the booking entered in driverPerformance? *)
HasDriver(b) == Truthy(b.driverId) /\ Truthy(b.driverName)

(* One step of confirmed.forEach: the booking's group is created on first  *)
(* sight, then its trips and revenue are increased.                        *)
AddToDriver(perf, b) ==
    IF HasDriver(b) THEN
        LET key == b.driverId.s
            created == IF HasOwn(perf, key) THEN perf
                       ELSE PutOwn(perf, key,
                                [name |-> b.driverName, trips |-> 0, revenue |-> 0])
            g == GetOwn(created, key)
        IN PutOwn(created, key,
                [name |-> g.name,
                 trips |-> g.trips + 1,
                 revenue |-> g.revenue + NumberOrZero(b.numericPrice)])
    ELSE perf

RECURSIVE DriverPerformance(_)
DriverPerformance(confirmed) ==
    IF confirmed = <<>> THEN <<>>
    ELSE AddToDriver(DriverPerformance(SubSeq(confirmed, 1, Len(confirmed) - 1)),
                     confirmed[Len(confirmed)])

(* Object.values(driverPerformance).sort((a, b) => b.revenue - a.revenue)  *)
(*     .slice(0, 5)                                                        *)
TopDrivers(perf) ==
    LET values == [i \in 1..Len(perf) |-> OwnEntries(perf)[i].value]
        sorted == StableSortDesc(values, [i \in 1..Len(values) |-> values[i].revenue])
    IN Slice(sorted, TopN)

(* RouteTitle without the 'Custom' default. *)
RouteTitle_NoDefault(b) == b.tourTitle.s

(* b.tourTitle || 'Custom' *)
RouteTitle(b) == IF Truthy(b.tourTitle) THEN b.tourTitle.s ELSE "Custom"

(* routePopularity[title] = (routePopularity[title] || 0) + 1 *)
AddToRoute(pop, b) ==
    LET title == RouteTitle(b)
        old == IF HasOwn(pop, title) THEN GetOwn(pop, title) ELSE 0
    IN PutOwn(pop, title, old + 1)

RECURSIVE RoutePopularity(_)
RoutePopularity(filtered) ==
    IF filtered = <<>> THEN <<>>
    ELSE AddToRoute(RoutePopularity(SubSeq(filtered, 1, Len(filtered) - 1)),
                    filtered[Len(filtered)])

(* Object.entries(routePopularity).map(([name, count]) => ({name, count})) *)
(*     .sort((a, b) => b.count - a.count).slice(0, 5)                      *)
TopRoutes(pop) ==
    LET entries == [i \in 1..Len(pop) |->
                        [name |-> OwnEntries(pop)[i].key,
                         count |-> OwnEntries(pop)[i].value]]
        sorted == StableSortDesc(entries, [i \in 1..Len(entries) |-> entries[i].count])
    IN Slice(sorted, TopN)

(* toLocaleDateString('en-GB', { day: 'numeric', month: 'short' }): the    *)
(* day of the month and the abbreviated month name of local time.          *)
MonthShort ==
    <<"Jan", "Feb", "Mar", "Apr", "May", "Jun",
      "Jul", "Aug", "Sept", "Oct", "Nov", "Dec">>

FormatDate(d) ==
    IF d.nan THEN "Invalid Date"
    ELSE LET c == CivilFromDays(DayNumber(d.n))
         IN ToString(c.date) \o " " \o MonthShort[c.month + 1]

(* The element the map of trendData builds of a booking: the price is      *)
(* copied as it is.                                                        *)
TrendEntry(b) ==
    [date |-> FormatDate(NewDate(b.createdAt)), amount |-> b.numericPrice]

(* Array.prototype.reverse *)
Reverse(seq) == [i \in 1..Len(seq) |-> seq[Len(seq) + 1 - i]]

(* TrendData with slice(-10) written for slice(0, 10). *)
TrendData_LastTen(confirmed) ==
    LET n == Len(confirmed)
        last == SubSeq(confirmed, IF n > TrendN THEN n - TrendN + 1 ELSE 1, n)
    IN Reverse([i \in 1..Len(last) |-> TrendEntry(last[i])])

(* TrendData without the reverse. *)
TrendData_NoReverse(confirmed) ==
    LET first == Slice(confirmed, TrendN)
    IN [i \in 1..Len(first) |-> TrendEntry(first[i])]

(* confirmed.slice(0, 10).map(...).reverse() *)
TrendData(confirmed) ==
    LET first == Slice(confirmed, TrendN)
    IN Reverse([i \in 1..Len(first) |-> TrendEntry(first[i])])

(* ActiveDrivers with d.status !== 'PENDING' written for the test. *)
ActiveDrivers_NotPending(ds) == Len(SelectSeq(ds, LAMBDA d : d.status # "PENDING"))

(* drivers.filter(d => d.status === 'ACTIVE').length *)
ActiveDrivers(ds) == Len(SelectSeq(ds, LAMBDA d : d.status = "ACTIVE"))

(* drivers.filter(d => d.status === 'PENDING').length *)
PendingDrivers(ds) == Len(SelectSeq(ds, LAMBDA d : d.status = "PENDING"))

(* The summary the memo returns. *)
Analytics(bs, ds, st, range, nowDate) ==
    LET filteredBookings == FilteredBookings(bs, range, nowDate)
        confirmed == Confirmed(filteredBookings)
        totalGross == TotalGross(confirmed)
        totalCommission == TotalCommission(totalGross, Commission(st))
    IN [totalBookings |-> Len(filteredBookings),
        confirmedCount |-> Len(confirmed),
        pendingCount |-> Len(Pending(filteredBookings)),
        cancelledCount |-> Len(Cancelled(filteredBookings)),
        totalGross |-> totalGross,
        totalCommission |-> totalCommission,
        netRevenue |-> NetRevenue(totalGross, totalCommission),
        aov |-> Aov(totalGross, Len(confirmed)),
        topDrivers |-> TopDrivers(DriverPerformance(confirmed)),
        topRoutes |-> TopRoutes(RoutePopularity(filteredBookings)),
        trendData |-> TrendData(confirmed),
        activeDrivers |-> ActiveDrivers(ds),
        pendingDrivers |-> PendingDrivers(ds)]

----------------------------------------------------------------------------
(* The arrays of a run of the memo, each with the storage that holds it:   *)
(* "bookings" and "drivers" are the arrays of the props, "new" is an array *)
(* the call allocated.  filter, slice, map, Object.values and              *)
(* Object.entries return a new array; sort and reverse rearrange their     *)
(* receiver and return it.                                                 *)

ArrayIn(store, items) == [store |-> store, items |-> items]

(* ArrFilter removing the rejected elements from its receiver. *)
ArrFilter_InPlace(a, keep) ==
    LET idx == SelectSeq([i \in 1..Len(a.items) |-> i], LAMBDA i : keep[i])
    IN ArrayIn(a.store, [j \in 1..Len(idx) |-> a.items[idx[j]]])

(* a.filter(test), keep[i] being the outcome of the test on element i. *)
ArrFilter(a, keep) ==
    LET idx == SelectSeq([i \in 1..Len(a.items) |-> i], LAMBDA i : keep[i])
    IN ArrayIn("new", [j \in 1..Len(idx) |-> a.items[idx[j]]])

(* a.slice(0, n) *)
ArrSlice(a, n) == ArrayIn("new", Slice(a.items, n))

(* a.map(f), mapped[i] being f of element i. *)
ArrMap(a, mapped) == ArrayIn("new", mapped)

(* a.reverse() *)
ArrReverse(a) == ArrayIn(a.store, Reverse(a.items))

(* a.sort((x, y) => y.key - x.key), keys[i] being the key of element i. *)
ArrSortDesc(a, keys) == ArrayIn(a.store, StableSortDesc(a.items, keys))

(* Object.entries(obj) and Object.values(obj) *)
ObjectEntries(obj) == ArrayIn("new", OwnEntries(obj))

ObjectValues(obj) ==
    ArrayIn("new", [i \in 1..Len(obj) |-> OwnEntries(obj)[i].value])

(* The arrays of one run of the memo, in the order in which its array      *)
(* calls return them, the two props first.                                 *)
ArrayCalls(bs, ds, range, nowDate) ==
    LET bookingsProp == ArrayIn("bookings", bs)
        driversProp == ArrayIn("drivers", ds)
        Keep(a, Test(_)) == [i \in 1..Len(a.items) |-> Test(a.items[i])]
        filteredBookings ==
            ArrFilter(bookingsProp,
                      Keep(bookingsProp, LAMBDA b : InTimeRange(b, range, nowDate)))
        confirmed == ArrFilter(filteredBookings, Keep(filteredBookings, IsConfirmed))
        pending ==
            ArrFilter(filteredBookings,
                      Keep(filteredBookings, LAMBDA b : b.status = "PENDING"))
        cancelled ==
            ArrFilter(filteredBookings,
                      Keep(filteredBookings, LAMBDA b : b.status = "CANCELLED"))
        values == ObjectValues(DriverPerformance(confirmed.items))
        sortedValues ==
            ArrSortDesc(values, [i \in 1..Len(values.items) |-> values.items[i].revenue])
        topDrivers == ArrSlice(sortedValues, TopN)
        entries == ObjectEntries(RoutePopularity(filteredBookings.items))
        routes ==
            ArrMap(entries,
                   [i \in 1..Len(entries.items) |->
                       [name |-> entries.items[i].key, count |-> entries.items[i].value]])
        sortedRoutes ==
            ArrSortDesc(routes, [i \in 1..Len(routes.items) |-> routes.items[i].count])
        topRoutes == ArrSlice(sortedRoutes, TopN)
        firstTen == ArrSlice(confirmed, TrendN)
        trend ==
            ArrMap(firstTen,
                   [i \in 1..Len(firstTen.items) |-> TrendEntry(firstTen.items[i])])
        trendData == ArrReverse(trend)
        active ==
            ArrFilter(driversProp, Keep(driversProp, LAMBDA d : d.status = "ACTIVE"))
        pendingDrivers ==
            ArrFilter(driversProp, Keep(driversProp, LAMBDA d : d.status = "PENDING"))
    IN <<bookingsProp, driversProp, filteredBookings, confirmed, pending, cancelled,
         values, sortedValues, topDrivers, entries, routes, sortedRoutes, topRoutes,
         firstTen, trend, trendData, active, pendingDrivers>>

(* What the storage `store` holds once the calls have returned: what the   *)
(* last of them that used it left there.                                   *)
StoreAfter(store, calls) ==
    LET last == CHOOSE i \in 1..Len(calls) :
                    /\ calls[i].store = store
                    /\ \A j \in (i + 1)..Len(calls) : calls[j].store # store
    IN calls[last].items

----------------------------------------------------------------------------
(* The dashboard as a state machine. *)

Booking(createdAt, status, numericPrice, driverId, driverName, tourTitle) ==
    [createdAt |-> createdAt, status |-> status, numericPrice |-> numericPrice,
     driverId |-> driverId, driverName |-> driverName, tourTitle |-> tourTitle]

Rate(num, den) == [t |-> "number", num |-> num, den |-> den]
UndefinedRate == [t |-> "undefined", num |-> 0, den |-> 1]
NaNRate == [t |-> "NaN", num |-> 0, den |-> 1]

TimeRanges == {"TODAY", "WEEK", "MONTH", "ALL"}

(* The local time y-m-d h:00 as a time value (the inverse of the civil     *)
(* calendar above); m counts from 1.                                       *)
DaysFromCivil(y, m, d) ==
    LET yy == IF m <= 2 THEN y - 1 ELSE y
        era == yy \div 400
        yoe == yy - era * 400
        doy == (153 * (IF m > 2 THEN m - 3 ELSE m + 9) + 2) \div 5 + d - 1
        doe == yoe * 365 + yoe \div 4 - yoe \div 100 + doy
    IN era * 146097 + doe - 719468

LocalTime(y, m, d, h) == (DaysFromCivil(y, m, d) * 24 + h) * TicksPerHour

(* The clock readings of the model: 15 March 2026 at noon and the          *)
(* following midnight.                                                     *)
Noon == LocalTime(2026, 3, 15, 12)
Midnight == LocalTime(2026, 3, 16, 0)
ClockValues == {Noon, Midnight}

(* The memo runs in the render that follows a change of one of its         *)
(* dependencies (bookings, drivers, settings, timeRange): it reads the     *)
(* clock and computes the summary.                                         *)
Recompute(bs, ds, st, range) ==
    /\ now' = Finite(clock)
    /\ analytics' = Analytics(bs, ds, st, range, Finite(clock))

(* The driver table.  driverSearch and driverSortField have no caller of   *)
(* their setters but handleSort('name'): the search text stays '' and the  *)
(* sort field stays 'name'.  The names of the model in the order of <.     *)
DriverNameOrder == <<"", "Ana", "Bob", "Cy", "New Driver">>

(* a[driverSortField] || '' as a rank in that order. *)
NameRank(d) == CHOOSE k \in 1..Len(DriverNameOrder) : DriverNameOrder[k] = d.name

(* Array.prototype.sort with the comparator of processedDrivers: in place  *)
(* and stable, ascending for 'asc' and descending otherwise.               *)
ArrSortByName(a, dir) ==
    ArrayIn(a.store,
            StableSortAsc(a.items,
                [i \in 1..Len(a.items) |->
                    IF dir = "asc" THEN NameRank(a.items[i])
                                   ELSE 0 - NameRank(a.items[i])]))

(* The processedDrivers memo: the PENDING tab filters localDrivers into a  *)
(* new array, every other tab keeps localDrivers itself, and the result    *)
(* is sorted where it is.                                                  *)
ProcessedDrivers(local, tab, dir) ==
    LET filtered ==
            IF tab = "PENDING"
            THEN ArrFilter(local,
                     [i \in 1..Len(local.items) |-> local.items[i].status = "PENDING"])
            ELSE local
    IN ArrSortByName(filtered, dir)

(* What the arrays hold after the render in which processedDrivers ran:    *)
(* a sort of localDrivers itself is seen in the state, and in the drivers  *)
(* prop when localDrivers is that array (setLocalDrivers(drivers)).        *)
AfterRender(local, ds, tab, dir) ==
    LET shown == ProcessedDrivers(local, tab, dir)
    IN [localDrivers |-> IF shown.store = local.store THEN shown ELSE local,
        drivers |-> IF shown.store = "drivers" THEN shown.items ELSE ds]

(* The rows of the table, which the DRIVERS and PENDING tabs show. *)
Rows ==
    IF activeTab \in {"DRIVERS", "PENDING"}
    THEN ProcessedDrivers(localDrivers, activeTab, driverSortDir).items
    ELSE <<>>

(* The state of a dashboard that has mounted on the collections App holds  *)
(* and has rendered: the form holds the default settings.                  *)
Mounted(bs, ds) ==
    LET r == AfterRender(ArrayIn("drivers", ds), ds, "DASHBOARD", "asc")
    IN /\ bookings = bs
       /\ drivers = r.drivers
       /\ localDrivers = r.localDrivers
       /\ settings = [commissionRate |-> Rate(13, 100)]
       /\ timeRange = "ALL"
       /\ activeTab = "DASHBOARD"
       /\ driverSortDir = "asc"
       /\ clock = Noon
       /\ now = Finite(Noon)
       /\ analytics = Analytics(bs, ds, settings, "ALL", Finite(Noon))

(* No handler has called the store. *)
NoCalls ==
    /\ callStatus = [handler |-> "none", status |-> "none", arg |-> Undefined]
    /\ alerts = "none"

(* An admin looks at the dashboard, which shows what the store holds; no   *)
(* load is in flight.                                                      *)
InitDashboard(store) ==
    /\ db = store
    /\ Mounted(store.bookings, store.drivers)
    /\ NoCalls
    /\ currentView = "ADMIN_DASHBOARD"
    /\ isDataLoaded = TRUE
    /\ loggedInDriverId = Undefined
    /\ tours = store.tours
    /\ systemSettings = store.settings
    /\ loads = <<>>
    /\ loadCount = 1
    /\ loadedBy = [tours |-> 1, drivers |-> 1, bookings |-> 1, completed |-> 1]

(* A store with no tours, drivers or bookings, whose settings record holds *)
(* the commission rate of the default form.                                *)
EmptyStore ==
    [settings |-> [own |-> TRUE, commissionRate |-> Rate(13, 100)],
     tours |-> <<>>, drivers |-> <<>>, bookings |-> <<>>]

InitWith(bs) == InitDashboard([EmptyStore EXCEPT !.bookings = bs])

(* App reloads the collections after a change of the store and passes the  *)
(* new booking array down. *)
ReceiveBookings(bs) ==
    /\ db' = [db EXCEPT !.bookings = bs]
    /\ bookings' = bs
    /\ Recompute(bs, drivers, settings, timeRange)
    /\ UNCHANGED <<drivers, settings, timeRange, clock, tableVars, callVars, appVars>>

(* A booking was created in the store. *)
BookingCreated(b) == ReceiveBookings(Append(bookings, b))

(* The Cancel button of a booking row: onUpdateBookingStatus(id,           *)
(* 'CANCELLED'), then the reload.                                          *)
CancelBooking(i) ==
    /\ i \in 1..Len(bookings)
    /\ ReceiveBookings([bookings EXCEPT ![i].status = "CANCELLED"])

(* A time-range button: setTimeRange(range).  Setting the state to the     *)
(* value it has changes nothing and renders nothing.                       *)
SetTimeRange(range) ==
    /\ range # timeRange
    /\ timeRange' = range
    /\ Recompute(bookings, drivers, settings, range)
    /\ UNCHANGED <<bookings, drivers, settings, clock, db, tableVars, callVars, appVars>>

(* handleNumberSetting('commissionRate', value), parsed being              *)
(* parseFloat(value): NaN is dropped, a number replaces the settings       *)
(* object.                                                                 *)
HandleNumberSetting(parsed) ==
    /\ parsed.t # "NaN"
    /\ settings' = [settings EXCEPT !.commissionRate = parsed]
    /\ Recompute(bookings, drivers, settings', timeRange)
    /\ UNCHANGED <<bookings, drivers, timeRange, clock, db, tableVars, callVars, appVars>>

(* App reloads the collections after a change of the store and passes the  *)
(* new driver array down: the summary is computed, the effect makes the    *)
(* array the localDrivers state, and processedDrivers runs on it.          *)
ShowDrivers(ds) ==
    LET r == AfterRender(ArrayIn("drivers", ds), ds, activeTab, driverSortDir)
    IN /\ drivers' = r.drivers
       /\ localDrivers' = r.localDrivers
       /\ Recompute(bookings, ds, settings, timeRange)

ReceiveDrivers(ds) ==
    /\ db' = [db EXCEPT !.drivers = ds]
    /\ ShowDrivers(ds)
    /\ UNCHANGED <<bookings, settings, timeRange, clock, activeTab,
                   driverSortDir, callVars, appVars>>

Driver(id, status) ==
    [id |-> id, name |-> "New Driver", status |-> status, documents |-> <<>>]

(* The ids `drv-${Date.now()}` in the order of their times. *)
DriverIdOrder == <<"drv-1", "drv-2", "drv-3">>

DriverIdValues == {DriverIdOrder[k] : k \in 1..Len(DriverIdOrder)}

(* handleAddNewDriverRow: onAddDriver of a new driver, whose status is     *)
(* 'PENDING', then the reload.  The id is made of the time, so that it is  *)
(* later than the ids of the drivers there are.                            *)
DriverCreated(id) ==
    /\ \E k \in 1..Len(DriverIdOrder) :
          /\ DriverIdOrder[k] = id
          /\ \A i \in 1..Len(db.drivers) :
                \E j \in 1..(k - 1) : DriverIdOrder[j] = db.drivers[i].id
    /\ ReceiveDrivers(Append(db.drivers, Driver(id, "PENDING")))

(* The status select of a driver row and its save: onUpdateDriver of the   *)
(* driver with the chosen status, then the reload.                         *)
DriverUpdated(i, status) ==
    /\ i \in 1..Len(db.drivers)
    /\ ReceiveDrivers([db.drivers EXCEPT ![i].status = status])

(* A tab button: setActiveTab(tab).  The render runs processedDrivers,     *)
(* and the effect on activeTab runs refreshData, which on the SETTINGS tab *)
(* reads the stored record s: setSettings(prev => ({ ...prev, ...s }))     *)
(* lets every own property of s, an undefined one too, replace that of     *)
(* prev.                                                                   *)
SetActiveTab(tab) ==
    LET r == AfterRender(localDrivers, drivers, tab, driverSortDir)
        s == db.settings
    IN /\ tab # activeTab
       /\ activeTab' = tab
       /\ drivers' = r.drivers
       /\ localDrivers' = r.localDrivers
       /\ IF tab = "SETTINGS"
          THEN /\ settings' = IF s.own THEN [commissionRate |-> s.commissionRate]
                                       ELSE settings
               /\ Recompute(bookings, drivers, settings', timeRange)
          ELSE UNCHANGED <<settings, now, analytics>>
       /\ UNCHANGED <<bookings, timeRange, clock, db, driverSortDir, callVars, appVars>>

(* refreshData with the SETTINGS tab open: s is what db.settings.get()     *)
(* resolved to.                                                            *)
RefreshSettings(s) ==
    /\ s = db.settings
    /\ SetActiveTab("SETTINGS")

(* handleNumberSetting from the commission-rate input, which the SETTINGS  *)
(* tab shows.                                                              *)
EditCommissionRate(parsed) ==
    /\ activeTab = "SETTINGS"
    /\ HandleNumberSetting(parsed)

(* A handler calls the store and awaits the promise; one call is followed  *)
(* at a time.  No alert has been shown for the new call.                   *)
StartCall(h, arg) ==
    /\ callStatus.status # "pending"
    /\ callStatus' = [handler |-> h, status |-> "pending", arg |-> arg]
    /\ alerts' = "none"

(* The promise of the call settles and the handler goes on: alert is the   *)
(* alert() the handler shows then, "none" when it shows none.              *)
FinishCall(h, ok, alert) ==
    /\ callStatus.handler = h
    /\ callStatus.status = "pending"
    /\ callStatus' = [handler |-> h,
                      status |-> IF ok THEN "resolved" ELSE "rejected",
                      arg |-> Undefined]
    /\ alerts' = alert

(* saveSettings up to its await: db.settings.save(settings) is called with *)
(* the form as it is.  The button is disabled while isSavingSettings.      *)
SaveSettings ==
    /\ activeTab = "SETTINGS"
    /\ StartCall("saveSettings", settings)
    /\ UNCHANGED <<bookings, drivers, settings, timeRange, clock, now, analytics,
                   db, tableVars, appVars>>

(* The alert of saveSettings: 'Settings saved!' after the await, the error *)
(* in the catch.                                                           *)
SaveSettingsAlert(ok) == IF ok THEN "success" ELSE "failure"

(* saveSettings after its await: the store has kept the record when the    *)
(* promise resolves.                                                       *)
SaveSettingsDone(ok) ==
    /\ FinishCall("saveSettings", ok, SaveSettingsAlert(ok))
    /\ db' = IF ok
             THEN [db EXCEPT !.settings =
                      [own |-> TRUE, commissionRate |-> callStatus.arg.commissionRate]]
             ELSE db
    /\ UNCHANGED <<bookings, drivers, settings, timeRange, clock, now, analytics,
                   tableVars, appVars>>

(* The header of the Driver column: handleSort('name') turns the           *)
(* direction round, and the render runs processedDrivers.                  *)
HandleSort ==
    LET dir == IF driverSortDir = "asc" THEN "desc" ELSE "asc"
        r == AfterRender(localDrivers, drivers, activeTab, dir)
    IN /\ activeTab \in {"DRIVERS", "PENDING"}
       /\ driverSortDir' = dir
       /\ drivers' = r.drivers
       /\ localDrivers' = r.localDrivers
       /\ UNCHANGED <<bookings, settings, timeRange, clock, now, analytics, db,
                      activeTab, callVars, appVars>>

(* setLocalDrivers(prev => prev.map(d => d.id === id ? { ...d, [field]:    *)
(* value } : d)): the state becomes a new array, which the render sorts.   *)
LocalDriverChange(id, field, value) ==
    LET mapped == [i \in 1..Len(localDrivers.items) |->
                      IF localDrivers.items[i].id = id
                      THEN [localDrivers.items[i] EXCEPT ![field] = value]
                      ELSE localDrivers.items[i]]
    IN AfterRender(ArrayIn("local", mapped), drivers, activeTab, driverSortDir)

(* handleLocalDriverChange from an input of a row of the table. *)
HandleLocalDriverChange(id, field, value) ==
    LET r == LocalDriverChange(id, field, value)
    IN /\ \E k \in 1..Len(Rows) : Rows[k].id = id
       /\ drivers' = r.drivers
       /\ localDrivers' = r.localDrivers
       /\ UNCHANGED <<bookings, settings, timeRange, clock, now, analytics, db,
                      activeTab, driverSortDir, callVars, appVars>>

(* What the store holds after drivers.update(d): the record of that id is  *)
(* replaced by d.                                                          *)
StoreUpdate(ds, d) == [i \in 1..Len(ds) |-> IF ds[i].id = d.id THEN d ELSE ds[i]]

(* What the store holds after bookings.assignDriver(bookingId, driver).    *)
StoreAssign(bs, i, d) ==
    [bs EXCEPT ![i].driverId = Str(d.id), ![i].driverName = Str(d.name)]

(* handleInlineSave(d) up to its await, d being a row of the table. *)
HandleInlineSave(id) ==
    /\ \E k \in 1..Len(Rows) : Rows[k].id = id /\ StartCall("inlineSave", Rows[k])
    /\ UNCHANGED <<bookings, drivers, settings, timeRange, clock, now, analytics,
                   db, tableVars, appVars>>

(* handleInlineSave after its await: alert(`Saved ...`), or the alert of   *)
(* the catch block.  The store has kept the record when the promise        *)
(* resolves, and the reload passes the new drivers down.                   *)
InlineSaveDone(ok) ==
    /\ FinishCall("inlineSave", ok, IF ok THEN "success" ELSE "failure")
    /\ IF ok
       THEN /\ db' = [db EXCEPT !.drivers = StoreUpdate(@, callStatus.arg)]
            /\ ShowDrivers(db'.drivers)
       ELSE UNCHANGED <<db, drivers, localDrivers, now, analytics>>
    /\ UNCHANGED <<bookings, settings, timeRange, clock, activeTab, driverSortDir,
                   appVars>>

(* newDocs = [...driver.documents]; newDocs.splice(docIndex, 1). *)
Splice(docs, docIndex) ==
    [k \in 1..(Len(docs) - (IF docIndex < Len(docs) THEN 1 ELSE 0)) |->
        IF k <= docIndex THEN docs[k] ELSE docs[k + 1]]

(* { ...driver, documents: newDocs }, driver being the element of          *)
(* localDrivers.                                                           *)
DocumentDeleteArg(driver, docIndex) ==
    [driver EXCEPT !.documents = Splice(driver.documents, docIndex)]

(* handleDocumentDelete(driverId, docIndex) up to its await, from the      *)
(* button of a document of a row; confirmed is the answer to confirm().    *)
HandleDocumentDelete(driverId, docIndex, confirmed) ==
    /\ \E k \in 1..Len(Rows) :
          Rows[k].id = driverId /\ docIndex < Len(Rows[k].documents)
    /\ IF confirmed /\ \E i \in 1..Len(localDrivers.items) :
                           localDrivers.items[i].id = driverId
       THEN LET driver == CHOOSE d \in {localDrivers.items[i] :
                                           i \in 1..Len(localDrivers.items)} :
                              d.id = driverId
                arg == DocumentDeleteArg(driver, docIndex)
                r == LocalDriverChange(driverId, "documents", arg.documents)
            IN /\ drivers' = r.drivers
               /\ localDrivers' = r.localDrivers
               /\ StartCall("documentDelete", arg)
       ELSE UNCHANGED <<drivers, localDrivers, callVars>>
    /\ UNCHANGED <<bookings, settings, timeRange, clock, now, analytics, db,
                   activeTab, driverSortDir, appVars>>

(* handleDocumentDelete after its await: nothing follows the await, and a  *)
(* rejection is not caught.  The store has kept the record when the        *)
(* promise resolves, and the reload passes the new drivers down.           *)
DocumentDeleteDone(ok) ==
    /\ FinishCall("documentDelete", ok, "none")
    /\ IF ok
       THEN /\ db' = [db EXCEPT !.drivers = StoreUpdate(@, callStatus.arg)]
            /\ ShowDrivers(db'.drivers)
       ELSE UNCHANGED <<db, drivers, localDrivers, now, analytics>>
    /\ UNCHANGED <<bookings, settings, timeRange, clock, activeTab, driverSortDir,
                   appVars>>

(* handleAssignDriver(bookingId, driverId) up to its await, from the       *)
(* select of a booking row without a driver name, whose options are the    *)
(* active drivers.                                                         *)
HandleAssignDriver(i, driverId) ==
    /\ activeTab = "BOOKINGS"
    /\ i \in 1..Len(bookings)
    /\ ~Truthy(bookings[i].driverName)
    /\ \E k \in 1..Len(drivers) :
          /\ drivers[k].id = driverId
          /\ drivers[k].status = "ACTIVE"
          /\ StartCall("assignDriver", [booking |-> i, driver |-> drivers[k]])
    /\ UNCHANGED <<bookings, drivers, settings, timeRange, clock, now, analytics,
                   db, tableVars, appVars>>

(* handleAssignDriver after its await: nothing follows the await, and a    *)
(* rejection is not caught.  The store has kept the assignment when the    *)
(* promise resolves, and the reload passes the new bookings down.          *)
AssignDriverDone(ok) ==
    /\ FinishCall("assignDriver", ok, "none")
    /\ IF ok
       THEN /\ db' = [db EXCEPT !.bookings =
                         StoreAssign(@, callStatus.arg.booking, callStatus.arg.driver)]
            /\ bookings' = db'.bookings
            /\ Recompute(bookings', drivers, settings, timeRange)
       ELSE UNCHANGED <<db, bookings, now, analytics>>
    /\ UNCHANGED <<drivers, settings, timeRange, clock, tableVars, appVars>>

(* Time passes; nothing is rendered. *)
Tick(t) ==
    /\ t > clock
    /\ clock' = t
    /\ UNCHANGED <<bookings, drivers, settings, timeRange, now, analytics, db,
                   tableVars, callVars, appVars>>

----------------------------------------------------------------------------
(* Specification of the time-range filter: bookings created around the     *)
(* boundaries of the windows.                                              *)

TimeStamps ==
    {Num(Noon), Num(Noon + 1),
     Num(LocalTime(2026, 3, 15, 0)), Num(LocalTime(2026, 3, 15, 0) - 1),
     Num(Noon - WeekWindow), Num(Noon - WeekWindow - 1),
     Num(Noon - MonthWindow), Num(Noon - MonthWindow - 1),
     Num(LocalTime(2026, 2, 15, 12)), Num(LocalTime(2025, 3, 15, 12)),
     Undefined}

TimeBookings ==
    {Booking(c, "CONFIRMED", Num(100), Str("ana"), Str("Ana"), Str("Kazbegi")) :
        c \in TimeStamps}
    \cup {Booking(c, "PENDING", Undefined, Undefined, Undefined, Undefined) :
        c \in {Num(Noon), Num(LocalTime(2026, 2, 15, 12))}}

Init == InitWith(<<>>)

Next ==
    \/ \E b \in TimeBookings : Len(bookings) < MaxTimeLen /\ BookingCreated(b)
    \/ \E r \in TimeRanges : SetTimeRange(r)
    \/ \E t \in ClockValues : Tick(t)

Spec == Init /\ [][Next]_vars

----------------------------------------------------------------------------
(* Specification of the figures: bookings of every status, with numeric,   *)
(* missing, textual and negative prices, inside and outside the window,    *)
(* under several commission rates.                                         *)

Statuses == {"PENDING", "CONFIRMED", "COMPLETED", "CANCELLED", "REJECTED"}

Prices == {Undefined, Str("abc"), Num(5), Num(-5), Num(50)}

MoneyBookings ==
    {Booking(Num(Noon), "CONFIRMED", p, Undefined, Undefined, Undefined) :
        p \in Prices \ {Str("abc")}}
    \cup {Booking(Num(Noon), "COMPLETED", p, Undefined, Undefined, Undefined) :
        p \in {Str("abc"), Num(50)}}
    \cup {Booking(Num(Noon), st, Num(50), Undefined, Undefined, Undefined) :
        st \in Statuses}
    \cup {Booking(Num(Noon - WeekWindow - 1), "CONFIRMED", Num(50),
                  Undefined, Undefined, Undefined)}

ParsedRates == {NaNRate, Rate(0, 1), Rate(13, 100), Rate(1, 2), Rate(1, 1)}

InitMoney == InitWith(<<>>)

NextMoney ==
    \/ \E b \in MoneyBookings : Len(bookings) < MaxMoneyLen /\ BookingCreated(b)
    \/ \E i \in 1..Len(bookings) : CancelBooking(i)
    \/ \E r \in {"ALL", "WEEK"} : SetTimeRange(r)
    \/ \E parsed \in ParsedRates : HandleNumberSetting(parsed)

SpecMoney == InitMoney /\ [][NextMoney]_vars

----------------------------------------------------------------------------
(* Specification of the leaderboards: the dashboard opens on a store that  *)
(* holds four bookings of four drivers on four routes, and bookings of     *)
(* further drivers and routes arrive.                                      *)

Trip(driverId, driverName, numericPrice, tourTitle) ==
    Booking(Num(Noon), "CONFIRMED", numericPrice, driverId, driverName, tourTitle)

StoredBookings ==
    <<Trip(Str("ana"), Str("Ana"), Num(10), Str("Kazbegi")),
      Trip(Str("12"), Str("Bob"), Num(20), Undefined),
      Trip(Str("bob"), Str("Bobo"), Num(20), Str("2024")),
      Trip(Str("7"), Str("Gia"), Num(10), Str("Batumi"))>>

GroupBookings ==
    {Trip(Str("cy"), Str("Cy"), Num(30), Str("Gori")),
     Trip(Str("dee"), Str("Dee"), Num(10), Str("Vardzia")),
     Trip(Str("3"), Str("Eli"), Num(30), Str("Custom")),
     Trip(Str("ana"), Str("Ana"), Num(30), Str("Kazbegi")),
     Trip(Str("7"), Str("Givi"), Num(10), Str("Sighnaghi")),
     Trip(Str("cy"), Undefined, Num(30), Str("Gori")),
     Trip(Undefined, Str("Zed"), Num(30), Str("Gori")),
     Trip(Str("fay"), Str("Fay"), Undefined, Str("Mestia")),
     Booking(Num(Noon), "PENDING", Num(50), Str("dee"), Str("Dee"), Str("Vardzia")),
     Booking(Num(Noon - WeekWindow - 1), "CONFIRMED", Num(30),
             Str("gus"), Str("Gus"), Str("Ushguli"))}

InitGroups ==
    \E bs \in {StoredBookings, Reverse(StoredBookings)} : InitWith(bs)

NextGroups ==
    \/ \E b \in GroupBookings :
          Len(bookings) < Len(StoredBookings) + MaxGroupAdds /\ BookingCreated(b)
    \/ \E r \in {"ALL", "WEEK"} : SetTimeRange(r)

SpecGroups == InitGroups /\ [][NextGroups]_vars

----------------------------------------------------------------------------
(* Specification of the trend series: the dashboard opens on a store that  *)
(* holds one confirmed booking for each of the last nine days, which the   *)
(* store returns newest first or oldest first, and further bookings        *)
(* arrive, so that more than ten are confirmed.                            *)

TrendStore ==
    [k \in 1..(TrendN - 1) |->
        Booking(Num(Noon - (k - 1) * TicksPerDay), "CONFIRMED", Num(10 * k),
                Undefined, Undefined, Undefined)]

TrendBookings ==
    {Booking(Num(Noon + 1), "CONFIRMED", Num(5), Undefined, Undefined, Undefined),
     Booking(Num(Noon - 20 * TicksPerDay), "COMPLETED", Num(7),
             Undefined, Undefined, Undefined),
     Booking(Num(Noon), "CONFIRMED", Undefined, Str("fay"), Str("Fay"), Undefined),
     Booking(Undefined, "CONFIRMED", Str("abc"), Str("fay"), Str("Fay"), Undefined),
     Booking(Num(Noon), "PENDING", Num(9), Undefined, Undefined, Undefined)}

InitTrend ==
    \E bs \in {TrendStore, Reverse(TrendStore)} : InitWith(bs)

NextTrend ==
    \/ \E b \in TrendBookings :
          Len(bookings) < Len(TrendStore) + MaxTrendAdds /\ BookingCreated(b)
    \/ \E r \in {"ALL", "WEEK"} : SetTimeRange(r)

SpecTrend == InitTrend /\ [][NextTrend]_vars

----------------------------------------------------------------------------
(* Specification of the dashboard as a whole: bookings and drivers come    *)
(* and change, the time range is switched, and the settings are reloaded   *)
(* from a store whose record may lack the commission rate.                 *)

DashBookings ==
    {Booking(Num(Noon), "CONFIRMED", Num(50), Str("ana"), Str("Ana"), Str("Kazbegi")),
     Booking(Num(Noon - 8 * TicksPerDay), "PENDING", Num(20),
             Undefined, Undefined, Undefined),
     Booking(Num(Noon - 40 * TicksPerDay), "COMPLETED", Num(30),
             Str("bob"), Str("Bobo"), Str("Batumi"))}

DriverStatuses == {"ACTIVE", "PENDING", "INACTIVE"}

StoredSettings ==
    {[own |-> FALSE, commissionRate |-> UndefinedRate],
     [own |-> TRUE, commissionRate |-> UndefinedRate],
     [own |-> TRUE, commissionRate |-> Rate(13, 100)],
     [own |-> TRUE, commissionRate |-> Rate(1, 2)]}

InitDash == \E s \in StoredSettings : InitDashboard([EmptyStore EXCEPT !.settings = s])

NextDash ==
    \/ \E b \in DashBookings : Len(bookings) < MaxDashLen /\ BookingCreated(b)
    \/ \E id \in DriverIdValues : Len(drivers) < MaxDrivers /\ DriverCreated(id)
    \/ \E i \in 1..Len(drivers), st \in DriverStatuses : DriverUpdated(i, st)
    \/ \E r \in TimeRanges : SetTimeRange(r)
    \/ \E s \in StoredSettings : RefreshSettings(s)

SpecDash == InitDash /\ [][NextDash]_vars

----------------------------------------------------------------------------
(* Specification of the settings: the dashboard opens on a store whose     *)
(* settings record was saved earlier, the admin moves between tabs, edits  *)
(* the commission rate and saves the form, and bookings arrive.            *)

SettingsBookings ==
    {Booking(Num(Noon), "CONFIRMED", Num(50), Undefined, Undefined, Undefined),
     Booking(Num(Noon), "PENDING", Num(20), Undefined, Undefined, Undefined)}

SettingsTabs == {"DASHBOARD", "DRIVERS", "SETTINGS"}

InitSettings ==
    \E s \in StoredSettings : InitDashboard([EmptyStore EXCEPT !.settings = s])

NextSettings ==
    \/ \E b \in SettingsBookings :
          Len(bookings) < MaxSettingsLen /\ BookingCreated(b)
    \/ \E tab \in SettingsTabs : SetActiveTab(tab)
    \/ \E parsed \in ParsedRates : EditCommissionRate(parsed)
    \/ SaveSettings
    \/ \E ok \in BOOLEAN : SaveSettingsDone(ok)

SpecSettings == InitSettings /\ [][NextSettings]_vars

----------------------------------------------------------------------------
(* App.  A run of initData awaits its four fetches in turn; each run is    *)
(* followed from the call of a fetch (no answer yet), over the read of     *)
(* the store that answers it, to the resumption of initData with the       *)
(* answer or with an error.                                                *)

LoadSteps == <<"settings", "tours", "drivers", "bookings">>

NoAnswer == [has |-> FALSE, value |-> <<>>]

(* initData as it starts: it has captured the loggedInDriverId of the      *)
(* render its effect belongs to, and has called db.settings.get().         *)
Load(id, session) == [id |-> id, session |-> session, pc |-> "settings", got |-> NoAnswer]

(* The state AdminDashboard has while it is not mounted is the one it      *)
(* mounts with.                                                            *)
DefaultSettings == [commissionRate |-> Rate(13, 100)]

EmptySummary == Analytics(<<>>, <<>>, DefaultSettings, "ALL", Finite(Noon))

NoDashboard ==
    /\ settings = DefaultSettings
    /\ timeRange = "ALL"
    /\ activeTab = "DASHBOARD"
    /\ localDrivers = ArrayIn("local", <<>>)
    /\ driverSortDir = "asc"
    /\ now = Finite(Noon)
    /\ analytics = EmptySummary

UnmountDashboard ==
    /\ settings' = DefaultSettings
    /\ timeRange' = "ALL"
    /\ activeTab' = "DASHBOARD"
    /\ localDrivers' = ArrayIn("local", <<>>)
    /\ driverSortDir' = "asc"
    /\ now' = Finite(Noon)
    /\ analytics' = EmptySummary

(* AdminDashboard mounts on the collections App holds: the memo computes   *)
(* the summary, the effect makes the drivers prop the localDrivers state,  *)
(* and processedDrivers sorts it.                                          *)
MountDashboard ==
    LET r == AfterRender(ArrayIn("drivers", drivers), drivers, "DASHBOARD", "asc")
    IN /\ drivers' = r.drivers
       /\ localDrivers' = r.localDrivers
       /\ settings' = DefaultSettings
       /\ timeRange' = "ALL"
       /\ activeTab' = "DASHBOARD"
       /\ driverSortDir' = "asc"
       /\ Recompute(bookings, drivers, DefaultSettings, "ALL")

(* App after its first render and effect: the session is read from         *)
(* localStorage, the view is ADMIN_LOGIN behind the page loader, and the   *)
(* first initData has started.                                             *)
InitAppOn(store, session) ==
    /\ db = store
    /\ currentView = "ADMIN_LOGIN"
    /\ isDataLoaded = FALSE
    /\ systemSettings = Undefined
    /\ tours = <<>>
    /\ drivers = <<>>
    /\ bookings = <<>>
    /\ loggedInDriverId = session
    /\ loads = {Load(1, session)}
    /\ loadCount = 1
    /\ loadedBy = [tours |-> 0, drivers |-> 0, bookings |-> 0, completed |-> 0]
    /\ clock = Noon
    /\ NoDashboard
    /\ NoCalls

(* A run of initData starts (the effect runs, or the listener of           *)
(* 'orbitrip-db-change' is called) with the loggedInDriverId it captured.  *)
StartLoad(session) ==
    /\ loadCount < MaxLoads
    /\ loadCount' = loadCount + 1
    /\ loads' = loads \cup {Load(loadCount + 1, session)}

(* The store gets an item it does not hold and dispatches                  *)
(* 'orbitrip-db-change': the listener that is registered, the initData of  *)
(* the last effect, runs.                                                  *)
StoreChanged(field, item) ==
    /\ \A i \in 1..Len(db[field]) : db[field][i] # item
    /\ db' = [db EXCEPT ![field] = Append(@, item)]
    /\ StartLoad(loggedInDriverId)
    /\ UNCHANGED <<bookings, drivers, settings, timeRange, clock, now, analytics,
                   tableVars, callVars, currentView, isDataLoaded,
                   loggedInDriverId, tours, systemSettings, loadedBy>>

(* The store reads the collection a run is waiting for. *)
Fetch(id) ==
    \E l \in loads :
        /\ l.id = id
        /\ ~l.got.has
        /\ loads' = (loads \ {l})
                        \cup {[l EXCEPT !.got = [has |-> TRUE, value |-> db[l.pc]]]}
        /\ UNCHANGED <<bookings, drivers, settings, timeRange, clock, now,
                       analytics, db, tableVars, callVars, currentView,
                       isDataLoaded, loggedInDriverId, tours, systemSettings,
                       loadCount, loadedBy>>

(* The run goes on to its next fetch. *)
Await(l, step) == (loads \ {l}) \cup {[l EXCEPT !.pc = step, !.got = NoAnswer]}

(* const settings = await db.settings.get(); setSystemSettings(settings);  *)
(* then db.tours.getAll() is called.                                       *)
ResolveSettings(id) ==
    \E l \in loads :
        /\ l.id = id /\ l.pc = "settings" /\ l.got.has
        /\ systemSettings' = l.got.value
        /\ loads' = Await(l, "tours")
        /\ UNCHANGED <<bookings, drivers, settings, timeRange, clock, now,
                       analytics, db, tableVars, callVars, currentView,
                       isDataLoaded, loggedInDriverId, tours, loadCount, loadedBy>>

(* setTours(await db.tours.getAll()); then db.drivers.getAll() is called.  *)
ResolveTours(id) ==
    \E l \in loads :
        /\ l.id = id /\ l.pc = "tours" /\ l.got.has
        /\ tours' = l.got.value
        /\ loadedBy' = [loadedBy EXCEPT !.tours = id]
        /\ loads' = Await(l, "drivers")
        /\ UNCHANGED <<bookings, drivers, settings, timeRange, clock, now,
                       analytics, db, tableVars, callVars, currentView,
                       isDataLoaded, loggedInDriverId, systemSettings, loadCount>>

(* setDrivers([...await db.drivers.getAll()]); then db.bookings.getAll()   *)
(* is called.  App renders before the next answer: a mounted dashboard     *)
(* gets the new drivers prop with the bookings it had.                     *)
ResolveDrivers(id) ==
    \E l \in loads :
        /\ l.id = id /\ l.pc = "drivers" /\ l.got.has
        /\ loadedBy' = [loadedBy EXCEPT !.drivers = id]
        /\ loads' = Await(l, "bookings")
        /\ IF currentView = "ADMIN_DASHBOARD"
           THEN LET r == AfterRender(ArrayIn("drivers", l.got.value), l.got.value,
                                     activeTab, driverSortDir)
                IN /\ drivers' = r.drivers
                   /\ localDrivers' = r.localDrivers
                   /\ Recompute(bookings, l.got.value, settings, timeRange)
           ELSE /\ drivers' = l.got.value
                /\ UNCHANGED <<localDrivers, now, analytics>>
        /\ UNCHANGED <<bookings, settings, timeRange, clock, db, activeTab,
                       driverSortDir, callVars, currentView, isDataLoaded,
                       loggedInDriverId, tours, systemSettings, loadCount>>

(* The view after a run whose fetches all resolved, with no test of the    *)
(* session.                                                                *)
ViewAfterLoad_Always(session, view) == "DRIVER_DASHBOARD"

(* if (loggedInDriverId) { setCurrentView('DRIVER_DASHBOARD'); } with the  *)
(* loggedInDriverId the run captured.                                      *)
ViewAfterLoad(session, view) ==
    IF Truthy(session) THEN "DRIVER_DASHBOARD" ELSE view

(* setBookings(await db.bookings.getAll()); the test of the session; and   *)
(* the finally block, setIsDataLoaded(true).  The three updates are        *)
(* rendered together.                                                      *)
ResolveBookings(id) ==
    \E l \in loads :
        /\ l.id = id /\ l.pc = "bookings" /\ l.got.has
        /\ bookings' = l.got.value
        /\ currentView' = ViewAfterLoad(l.session, currentView)
        /\ isDataLoaded' = TRUE
        /\ loadedBy' = [loadedBy EXCEPT !.bookings = id,
                                        !.completed = IF id > @ THEN id ELSE @]
        /\ loads' = loads \ {l}
        /\ IF currentView' = "ADMIN_DASHBOARD"
           THEN /\ Recompute(l.got.value, drivers, settings, timeRange)
                /\ UNCHANGED <<settings, timeRange, tableVars>>
           ELSE IF currentView = "ADMIN_DASHBOARD"
                THEN UnmountDashboard
                ELSE UNCHANGED <<settings, timeRange, now, analytics, tableVars>>
        /\ UNCHANGED <<drivers, clock, db, callVars, loggedInDriverId, tours,
                       systemSettings, loadCount>>

(* What a state of App holds after the catch block, were the catch to      *)
(* clear it.                                                               *)
AfterCatch_Cleared(collection) == <<>>

(* catch (err) { console.error(err); } leaves the state of App as it is.   *)
AfterCatch(collection) == collection

(* The fetch a run awaits rejects: the catch block, then the finally       *)
(* block, setIsDataLoaded(true).                                           *)
Reject(id) ==
    \E l \in loads :
        /\ l.id = id
        /\ isDataLoaded' = TRUE
        /\ loads' = loads \ {l}
        /\ tours' = AfterCatch(tours)
        /\ drivers' = AfterCatch(drivers)
        /\ bookings' = AfterCatch(bookings)
        /\ UNCHANGED <<settings, timeRange, clock, now, analytics, db, tableVars,
                       callVars, currentView, loggedInDriverId, systemSettings,
                       loadCount, loadedBy>>

(* handleLogin, called by AdminLogin, which App shows in the ADMIN_LOGIN   *)
(* view once the data is loaded.  A new loggedInDriverId runs the effect   *)
(* again: the listener is replaced and initData starts.                    *)
HandleLogin(role, driverId) ==
    /\ isDataLoaded
    /\ currentView = "ADMIN_LOGIN"
    /\ \/ /\ role = "ADMIN"
          /\ currentView' = "ADMIN_DASHBOARD"
          /\ MountDashboard
          /\ UNCHANGED <<loggedInDriverId, loads, loadCount>>
       \/ /\ role = "DRIVER"
          /\ Truthy(driverId)
          /\ loggedInDriverId' = driverId
          /\ currentView' = "DRIVER_DASHBOARD"
          /\ IF driverId # loggedInDriverId
             THEN StartLoad(driverId)
             ELSE UNCHANGED <<loads, loadCount>>
          /\ UNCHANGED <<drivers, settings, timeRange, now, analytics, tableVars>>
    /\ UNCHANGED <<bookings, clock, db, callVars, isDataLoaded, tours,
                   systemSettings, loadedBy>>

(* handleLogout, the onLogout of the two dashboards and the LOGOUT tool of *)
(* the header, which shows it in the views it takes for logged in.  (The   *)
(* LOGIN tool is offered in the ADMIN_LOGIN view only, where it sets the   *)
(* view to the value it has.)                                              *)
HandleLogout ==
    /\ isDataLoaded
    /\ currentView \in {"ADMIN_DASHBOARD", "DRIVER_DASHBOARD"}
    /\ loggedInDriverId' = Undefined
    /\ currentView' = "ADMIN_LOGIN"
    /\ IF loggedInDriverId # Undefined
       THEN StartLoad(Undefined)
       ELSE UNCHANGED <<loads, loadCount>>
    /\ IF currentView = "ADMIN_DASHBOARD"
       THEN UnmountDashboard
       ELSE UNCHANGED <<settings, timeRange, now, analytics, tableVars>>
    /\ UNCHANGED <<bookings, drivers, clock, db, callVars, isDataLoaded, tours,
                   systemSettings, loadedBy>>

----------------------------------------------------------------------------
(* Specification of App: the browser may hold a driver session, the store  *)
(* holds a tour, a driver and a booking, bookings and drivers are added to *)
(* it, fetches resolve or reject in any order, and admins and drivers log  *)
(* in and out.                                                             *)

AppStore ==
    [EmptyStore EXCEPT
        !.tours = <<"Kazbegi">>,
        !.drivers = <<[Driver("drv-1", "ACTIVE") EXCEPT !.name = "Cy"]>>,
        !.bookings = <<Booking(Num(Noon), "CONFIRMED", Num(50),
                               Str("drv-1"), Str("Cy"), Str("Kazbegi"))>>]

AppSessions == {Undefined, Str("drv-1")}

AppChanges ==
    {[field |-> "bookings",
      item |-> Booking(Num(Noon), "PENDING", Num(20), Undefined, Undefined, Undefined)],
     [field |-> "drivers", item |-> Driver("drv-2", "PENDING")]}

LoadIds == 1..MaxLoads

InitApp == \E session \in AppSessions : InitAppOn(AppStore, session)

NextApp ==
    \/ \E c \in AppChanges : StoreChanged(c.field, c.item)
    \/ \E id \in LoadIds : Fetch(id)
    \/ \E id \in LoadIds : ResolveSettings(id)
    \/ \E id \in LoadIds : ResolveTours(id)
    \/ \E id \in LoadIds : ResolveDrivers(id)
    \/ \E id \in LoadIds : ResolveBookings(id)
    \/ \E id \in LoadIds : Reject(id)
    \/ \E role \in {"ADMIN", "DRIVER"}, driverId \in AppSessions :
          HandleLogin(role, driverId)
    \/ HandleLogout

SpecApp == InitApp /\ [][NextApp]_vars

(* Every fetch is answered: a run that awaits a fetch goes on, with the    *)
(* answer or with an error.                                                *)
Settle(id) ==
    Reject(id) \/ Fetch(id) \/ ResolveSettings(id) \/ ResolveTours(id)
        \/ ResolveDrivers(id) \/ ResolveBookings(id)

FairApp == \A id \in LoadIds : WF_vars(Settle(id))

SpecAppFair == InitApp /\ [][NextApp]_vars /\ FairApp

----------------------------------------------------------------------------
(* Specification of the driver table and of the handlers that call the     *)
(* store: the dashboard opens on two drivers with documents and a booking  *)
(* without a driver; the admin moves between the tabs, sorts the table,    *)
(* edits names and statuses, saves rows, deletes documents and assigns     *)
(* drivers, and the calls of the store resolve or reject.                  *)

TableStore ==
    [EmptyStore EXCEPT
        !.drivers =
            <<[Driver("drv-1", "ACTIVE") EXCEPT
                  !.name = "Cy", !.documents = <<"licence", "passport">>],
              [Driver("drv-2", "PENDING") EXCEPT !.name = "Bob"]>>,
        !.bookings = <<Booking(Num(Noon), "PENDING", Num(20),
                               Undefined, Undefined, Str("Kazbegi"))>>]

TableEdits == {[field |-> "name", value |-> "Ana"]}

InitTable == InitDashboard(TableStore)

NextTable ==
    \/ \E tab \in {"DRIVERS", "PENDING", "BOOKINGS"} : SetActiveTab(tab)
    \/ HandleSort
    \/ \E id \in DriverIdValues, e \in TableEdits :
          HandleLocalDriverChange(id, e.field, e.value)
    \/ \E id \in DriverIdValues : HandleInlineSave(id)
    \/ \E ok \in BOOLEAN : InlineSaveDone(ok)
    \/ \E id \in DriverIdValues, docIndex \in 0..1, confirmed \in BOOLEAN :
          HandleDocumentDelete(id, docIndex, confirmed)
    \/ \E ok \in BOOLEAN : DocumentDeleteDone(ok)
    \/ \E i \in 1..Len(bookings), id \in DriverIdValues : HandleAssignDriver(i, id)
    \/ \E ok \in BOOLEAN : AssignDriverDone(ok)

SpecTable == InitTable /\ [][NextTable]_vars

----------------------------------------------------------------------------
(* Properties of the time-range filter. *)

(* The indices of the bookings the filter keeps, for the captured `now`. *)
Kept(range) == {i \in 1..Len(bookings) : InTimeRange(bookings[i], range, now)}

HasTime(b) == b.createdAt.t = "number"

(* s is a sub-sequence of t: s is t with some elements left out. *)
RECURSIVE IsSubsequence(_, _)
IsSubsequence(s, t) ==
    IF s = <<>> THEN TRUE
    ELSE IF t = <<>> THEN FALSE
    ELSE IF Head(s) = Head(t) THEN IsSubsequence(Tail(s), Tail(t))
    ELSE IsSubsequence(s, Tail(t))

(* C1: with TODAY a booking is kept exactly when its creation time is a    *)
(* valid date on the calendar day of `now` (the same day of local time,    *)
(* whatever its status or other fields), and totalBookings counts those.   *)
C1_TodayIsSameCalendarDay ==
    timeRange = "TODAY" =>
        /\ Kept("TODAY") =
              {i \in 1..Len(bookings) :
                  /\ HasTime(bookings[i])
                  /\ \E k \in {now.n \div TicksPerDay} :
                        /\ k * TicksPerDay <= bookings[i].createdAt.n
                        /\ bookings[i].createdAt.n < (k + 1) * TicksPerDay}
        /\ analytics.totalBookings = Cardinality(Kept("TODAY"))

(* A booking of today is kept and one of the same day of the previous      *)
(* month is not.                                                           *)
C1_Witness ==
    /\ timeRange = "TODAY"
    /\ analytics.totalBookings = 1
    /\ \E i \in Kept("TODAY") : bookings[i].status = "PENDING"
    /\ \E i \in 1..Len(bookings) :
          /\ i \notin Kept("TODAY")
          /\ bookings[i].createdAt = Num(LocalTime(2026, 2, 15, 12))

Window(range) == IF range = "WEEK" THEN WeekWindow ELSE MonthWindow

(* C2 as stated: with WEEK or MONTH a booking is kept exactly when         *)
(* now - window <= createdAt <= now.                                       *)
C2_Original ==
    timeRange \in {"WEEK", "MONTH"} =>
        Kept(timeRange) =
            {i \in 1..Len(bookings) :
                /\ HasTime(bookings[i])
                /\ now.n - Window(timeRange) <= bookings[i].createdAt.n
                /\ bookings[i].createdAt.n <= now.n}

(* C2 amended: with WEEK (MONTH) a booking is kept exactly when its        *)
(* creation time is a valid date with createdAt >= now - 7*24h (30*24h);   *)
(* the lower bound is included and there is no upper bound, so a booking   *)
(* created at `now` or after it is kept.                                   *)
C2_WindowHasNoUpperBound ==
    timeRange \in {"WEEK", "MONTH"} =>
        /\ Kept(timeRange) =
              {i \in 1..Len(bookings) :
                  /\ HasTime(bookings[i])
                  /\ now.n - Window(timeRange) <= bookings[i].createdAt.n}
        /\ analytics.totalBookings = Cardinality(Kept(timeRange))

(* Under WEEK: a booking at the lower bound and a later-than-now booking   *)
(* are kept, one a tick before the bound is not.                           *)
C2_Witness ==
    /\ timeRange = "WEEK"
    /\ \E i \in Kept("WEEK") : bookings[i].createdAt.n = now.n - WeekWindow
    /\ \E i \in Kept("WEEK") : bookings[i].createdAt.n > now.n
    /\ \E i \in 1..Len(bookings) :
          /\ i \notin Kept("WEEK")
          /\ bookings[i].createdAt = Num(now.n - WeekWindow - 1)

(* C3: the filtered collections are nested, TODAY in WEEK in MONTH in ALL, *)
(* each a sub-sequence of the next and of the booking collection, and      *)
(* ALL keeps the whole collection.                                         *)
C3_RangesNested ==
    LET F(range) == FilteredBookings(bookings, range, now) IN
    /\ IsSubsequence(F("TODAY"), F("WEEK"))
    /\ IsSubsequence(F("WEEK"), F("MONTH"))
    /\ IsSubsequence(F("MONTH"), F("ALL"))
    /\ F("ALL") = bookings
    /\ Kept("TODAY") \subseteq Kept("WEEK")
    /\ Kept("WEEK") \subseteq Kept("MONTH")
    /\ analytics.totalBookings = Len(F(timeRange))
    /\ timeRange = "ALL" => analytics.totalBookings = Len(bookings)

(* Three bookings of which TODAY keeps one, WEEK two and MONTH three,      *)
(* under ALL.                                                              *)
C3_Witness ==
    /\ timeRange = "ALL"
    /\ analytics.totalBookings = 3
    /\ Cardinality(Kept("TODAY")) = 1
    /\ Cardinality(Kept("WEEK")) = 2
    /\ Cardinality(Kept("MONTH")) = 3
    /\ Kept("TODAY") = {3}

----------------------------------------------------------------------------
(* Properties of the figures. *)

KeptWithStatus(statuses) ==
    {i \in Kept(timeRange) : bookings[i].status \in statuses}

(* C4: confirmedCount + pendingCount + cancelledCount <= totalBookings,    *)
(* with equality exactly when every kept booking has one of the four       *)
(* statuses; confirmedCount counts the CONFIRMED and COMPLETED ones, and   *)
(* a kept booking of another status is in totalBookings only.              *)
C4_StatusPartition ==
    LET counted == analytics.confirmedCount + analytics.pendingCount
                        + analytics.cancelledCount
        FourStatuses == {"PENDING", "CONFIRMED", "COMPLETED", "CANCELLED"}
    IN
    /\ counted <= analytics.totalBookings
    /\ counted = analytics.totalBookings
          <=> \A i \in Kept(timeRange) : bookings[i].status \in FourStatuses
    /\ analytics.confirmedCount = Cardinality(KeptWithStatus({"CONFIRMED", "COMPLETED"}))
    /\ analytics.pendingCount = Cardinality(KeptWithStatus({"PENDING"}))
    /\ analytics.cancelledCount = Cardinality(KeptWithStatus({"CANCELLED"}))
    /\ analytics.totalBookings - counted
          = Cardinality(Kept(timeRange) \ KeptWithStatus(FourStatuses))

(* A CONFIRMED, a COMPLETED and a REJECTED booking are kept. *)
C4_Witness ==
    /\ analytics.totalBookings = 3
    /\ analytics.confirmedCount = 2
    /\ analytics.pendingCount = 0
    /\ analytics.cancelledCount = 0
    /\ KeptWithStatus({"COMPLETED"}) # {}
    /\ KeptWithStatus({"REJECTED"}) # {}

(* The price a booking contributes: its number, and zero when the price   *)
(* is missing or is no number.                                             *)
PriceOf(b) ==
    IF b.numericPrice.t = "number" THEN b.numericPrice.n ELSE 0

RECURSIVE SumOver(_)
SumOver(idx) ==
    IF idx = {} THEN 0
    ELSE LET i == CHOOSE i \in idx : TRUE
         IN PriceOf(bookings[i]) + SumOver(idx \ {i})

(* C5: totalGross is the sum of the prices of exactly the kept bookings    *)
(* that are CONFIRMED or COMPLETED, a missing or invalid price counting    *)
(* as zero; other statuses and bookings outside the window add nothing.    *)
C5_GrossIsConfirmedSum ==
    analytics.totalGross = SumOver(KeptWithStatus({"CONFIRMED", "COMPLETED"}))

(* Under WEEK: a confirmed booking with a price, one without a usable      *)
(* price, and a confirmed booking outside the window.                      *)
C5_Witness ==
    /\ timeRange = "WEEK"
    /\ analytics.totalGross = 5
    /\ \E i \in KeptWithStatus({"COMPLETED"}) : bookings[i].numericPrice = Str("abc")
    /\ \E i \in KeptWithStatus({"CONFIRMED"}) : bookings[i].numericPrice = Num(5)
    /\ \E i \in 1..Len(bookings) :
          i \notin Kept("WEEK") /\ bookings[i].status = "CONFIRMED"

(* The commission rate in force lies in [0, 1]. *)
RateInUnitInterval ==
    LET r == Commission(settings) IN 0 <= r.num /\ r.num <= r.den

(* C6: netRevenue + totalCommission = totalGross for every rate in [0, 1]. *)
C6_NetPlusCommissionIsGross ==
    RateInUnitInterval =>
        analytics.netRevenue + analytics.totalCommission = analytics.totalGross

(* A commission that was rounded: 13% of 55. *)
C6_Witness ==
    /\ settings.commissionRate = Rate(13, 100)
    /\ analytics.totalGross = 55
    /\ analytics.totalCommission = 7
    /\ analytics.netRevenue = 48

Abs(x) == IF x < 0 THEN 0 - x ELSE x

(* num/den, den > 0, rounded to the nearest integer, halves away from 0. *)
RoundHalfAwayFromZero(num, den) ==
    IF num >= 0 THEN (2 * num + den) \div (2 * den)
    ELSE 0 - ((2 * (0 - num) + den) \div (2 * den))

(* C7 as stated: totalCommission is totalGross * rate rounded to the       *)
(* nearest integer, halves away from zero, also for a negative totalGross. *)
C7_Original ==
    LET r == Commission(settings) IN
    analytics.totalCommission = RoundHalfAwayFromZero(analytics.totalGross * r.num, r.den)

(* C7 amended: totalCommission is totalGross * rate rounded to the nearest *)
(* integer with exact halves rounded up (towards plus infinity):           *)
(* c - 1/2 <= totalGross * rate < c + 1/2.  That is away from zero when    *)
(* totalGross * rate >= 0 and towards zero when it is negative.            *)
C7_CommissionRoundsHalfUp ==
    LET r == Commission(settings)
        c == analytics.totalCommission
        x2 == 2 * analytics.totalGross * r.num
    IN
    /\ (2 * c - 1) * r.den <= x2
    /\ x2 < (2 * c + 1) * r.den
    /\ analytics.totalGross * r.num >= 0 => C7_Original

(* Half of -5 is rounded to -2, not to -3. *)
C7_Witness ==
    /\ settings.commissionRate = Rate(1, 2)
    /\ analytics.totalGross = -5
    /\ analytics.totalCommission = -2

(* C8: aov is round(totalGross / confirmedCount) when confirmedCount > 0,  *)
(* so |aov * confirmedCount - totalGross| <= confirmedCount / 2, and aov   *)
(* is 0 when confirmedCount = 0.                                           *)
C8_AovIsRoundedMean ==
    LET n == analytics.confirmedCount
        g == analytics.totalGross
        a == analytics.aov
    IN
    /\ n = 0 => a = 0
    /\ n > 0 =>
          /\ 2 * Abs(a * n - g) <= n
          /\ (2 * a - 1) * n <= 2 * g
          /\ 2 * g < (2 * a + 1) * n

(* 55 over two confirmed bookings is 27.5, shown as 28; and a summary      *)
(* without confirmed bookings exists too (the initial state).              *)
C8_Witness ==
    /\ analytics.confirmedCount = 2
    /\ analytics.totalGross = 55
    /\ analytics.aov = 28
    /\ analytics.totalBookings = 3

----------------------------------------------------------------------------
(* Properties of the leaderboards. *)

(* The confirmed bookings the summary was computed from, and its groups. *)
ConfirmedNow == Confirmed(FilteredBookings(bookings, timeRange, now))

DriverGroups == DriverPerformance(ConfirmedNow)

RouteGroups ==
    LET pop == RoutePopularity(FilteredBookings(bookings, timeRange, now))
    IN [i \in 1..Len(pop) |-> [name |-> pop[i].key, count |-> pop[i].value]]

RECURSIVE SumPrices(_)
SumPrices(seq) ==
    IF seq = <<>> THEN 0 ELSE PriceOf(Head(seq)) + SumPrices(Tail(seq))

(* The bookings of conf that carry the driver identifier id, and those    *)
(* of them that carry a driver name too.                                   *)
TripsOf(conf, id) == SelectSeq(conf, LAMBDA b : b.driverId = Str(id))

NamedTripsOf(conf, id) ==
    SelectSeq(conf, LAMBDA b : b.driverId = Str(id) /\ b.driverName.t = "string")

DriverIds(conf) == {conf[i].driverId.s : i \in 1..Len(conf)} \ {""}

Count(seq, x) == Cardinality({i \in 1..Len(seq) : seq[i] = x})

(* list holds the min(TopN, number of groups) highest-ranked of groups,    *)
(* in non-increasing order of the ranking key.                             *)
IsTopOf(list, groups, Key(_)) ==
    /\ Len(list) = Min(TopN, Len(groups))
    /\ Len(list) <= 5
    /\ \A k \in 1..(Len(list) - 1) : Key(list[k]) >= Key(list[k + 1])
    /\ \A k \in 1..Len(list) : Count(list, list[k]) <= Count(groups, list[k])
    /\ \A i \in 1..Len(groups) :
          Count(groups, groups[i]) > Count(list, groups[i]) =>
              \A k \in 1..Len(list) : Key(groups[i]) <= Key(list[k])

(* C10: topDrivers and topRoutes have min(5, number of groups) entries,    *)
(* are ordered non-increasing by revenue resp. count, and no group left    *)
(* out ranks strictly higher than a group in the list.                     *)
C10_TopFive ==
    /\ IsTopOf(analytics.topDrivers,
               [i \in 1..Len(DriverGroups) |-> DriverGroups[i].value],
               LAMBDA g : g.revenue)
    /\ IsTopOf(analytics.topRoutes, RouteGroups, LAMBDA g : g.count)

(* Seven drivers and six routes, the lists are cut at five, and the last   *)
(* entry kept ranks strictly below the first.                              *)
C10_Witness ==
    /\ Len(DriverGroups) = 7
    /\ Len(RouteGroups) = 6
    /\ Len(analytics.topDrivers) = 5
    /\ Len(analytics.topRoutes) = 5
    /\ analytics.topDrivers[1].revenue > analytics.topDrivers[5].revenue
    /\ analytics.topRoutes[1].count > analytics.topRoutes[5].count

(* The position in seq of the first element that satisfies Test. *)
FirstIndex(seq, Test(_)) ==
    CHOOSE i \in 1..Len(seq) : Test(seq[i]) /\ \A j \in 1..(i - 1) : ~Test(seq[j])

(* groups ranked by Key, highest first, groups of equal Key in the order   *)
(* in which seen[i], the position of the first booking of groups[i], puts  *)
(* them; cut at five.                                                      *)
RankedByFirstSeen(groups, seen, Key(_)) ==
    LET Before(i, j) ==
            \/ Key(groups[i]) > Key(groups[j])
            \/ (Key(groups[i]) = Key(groups[j]) /\ seen[i] < seen[j])
        Pos(i) == 1 + Cardinality({j \in 1..Len(groups) : Before(j, i)})
        At(p) == CHOOSE i \in 1..Len(groups) : Pos(i) = p
    IN [p \in 1..Min(5, Len(groups)) |-> groups[At(p)]]

(* C11 as stated: in topDrivers and in topRoutes the groups of equal       *)
(* revenue resp. count stand in the order in which their first bookings    *)
(* stand in the collection, whatever the identifiers and titles are, and   *)
(* of the groups tied across the cut at five the first-encountered are     *)
(* kept.                                                                   *)
C11_Original ==
    LET kept == FilteredBookings(bookings, timeRange, now)
        conf == Confirmed(kept)
        perf == DriverPerformance(conf)
        pop == RoutePopularity(kept)
        drv == [i \in 1..Len(perf) |-> perf[i].value]
        drvSeen == [i \in 1..Len(perf) |->
                      FirstIndex(conf, LAMBDA b :
                          /\ b.driverId = Str(perf[i].key)
                          /\ b.driverName.t = "string")]
        rts == [i \in 1..Len(pop) |-> [name |-> pop[i].key, count |-> pop[i].value]]
        rtsSeen == [i \in 1..Len(pop) |->
                      FirstIndex(kept, LAMBDA b :
                          \/ b.tourTitle = Str(pop[i].key)
                          \/ (pop[i].key = "Custom" /\ b.tourTitle.t = "undefined"))]
    IN
    /\ analytics.topDrivers = RankedByFirstSeen(drv, drvSeen, LAMBDA g : g.revenue)
    /\ analytics.topRoutes = RankedByFirstSeen(rts, rtsSeen, LAMBDA g : g.count)

(* The title a booking is counted under. *)
TitleOf(b) ==
    IF b.tourTitle.t = "string" /\ b.tourTitle.s # "" THEN b.tourTitle.s
    ELSE "Custom"

RECURSIVE SumCounts(_)
SumCounts(list) ==
    IF list = <<>> THEN 0 ELSE Head(list).count + SumCounts(Tail(list))

----------------------------------------------------------------------------
(* Properties of the trend series. *)

TrendSource == Slice(ConfirmedNow, 10)

(* Booking b has the earliest creation time of the bookings of src. *)
IsEarliest(b, src) ==
    /\ HasTime(b)
    /\ \A j \in 1..Len(src) : HasTime(src[j]) => b.createdAt.n <= src[j].createdAt.n

(* C14 as stated: whatever the order of the collection, the first element  *)
(* of trendData is the booking created earliest among the confirmed        *)
(* bookings the series is built from.                                      *)
C14_Original ==
    LET src == TrendSource
        td == analytics.trendData
    IN td # <<>> =>
          \E i \in 1..Len(src) : td[1] = TrendEntry(src[i]) /\ IsEarliest(src[i], src)

(* C14 amended: the first element of trendData is the last, in collection  *)
(* order, of the up to ten confirmed bookings the series is built from.    *)
(* It is the one created earliest when those bookings stand in the         *)
(* collection newest first.                                                *)
C14_FirstIsLastOfSource ==
    LET src == TrendSource
        td == analytics.trendData
        newestFirst ==
            \A i \in 1..Len(src) :
                /\ HasTime(src[i])
                /\ i < Len(src) => src[i].createdAt.n >= src[i + 1].createdAt.n
    IN td # <<>> =>
          /\ td[1] = TrendEntry(src[Len(src)])
          /\ newestFirst => IsEarliest(src[Len(src)], src)

(* The store returned the bookings oldest first: the first element of the  *)
(* series is the newest of the source, not the earliest.                   *)
C14_Witness ==
    LET src == TrendSource
        td == analytics.trendData
    IN
    /\ Len(src) = 10
    /\ td[1] = TrendEntry(src[10])
    /\ ~IsEarliest(src[10], src)
    /\ IsEarliest(src[1], src)
    /\ td[1] # TrendEntry(src[1])

(* C17 as stated: a confirmed booking whose price is missing or is not a   *)
(* number counts as zero in every figure: totalGross is the sum of the     *)
(* numeric prices, a driver's revenue is the sum of the numeric prices of  *)
(* the driver's bookings, and every element of trendData carries a number  *)
(* as its amount, zero for such a booking.                                 *)
C17_Original ==
    LET conf == ConfirmedNow
        groups == DriverGroups
        td == analytics.trendData
        k == Len(td)
    IN
    /\ analytics.totalGross = SumPrices(conf)
    /\ \A i \in 1..Len(groups) :
          groups[i].value.revenue = SumPrices(NamedTripsOf(conf, groups[i].key))
    /\ \A i \in 1..k :
          /\ td[i].amount.t = "number"
          /\ td[i].amount.n = PriceOf(conf[k + 1 - i])

----------------------------------------------------------------------------
(* Properties of the driver counts and of the defaults. *)

(* C15: activeDrivers and pendingDrivers are the numbers of ACTIVE and of  *)
(* PENDING drivers in the whole driver collection, in every state: no      *)
(* choice of the time range and no content of the booking collection       *)
(* changes them.                                                           *)
C15_DriverCountsIgnoreTimeRange ==
    /\ analytics.activeDrivers
          = Cardinality({i \in 1..Len(drivers) : drivers[i].status = "ACTIVE"})
    /\ analytics.pendingDrivers
          = Cardinality({i \in 1..Len(drivers) : drivers[i].status = "PENDING"})

(* Under TODAY the filter drops every booking, and of the two drivers the  *)
(* active one is counted and the inactive one is not.                      *)
C15_Witness ==
    /\ timeRange = "TODAY"
    /\ Len(bookings) > 0
    /\ analytics.totalBookings = 0
    /\ Len(drivers) = 2
    /\ analytics.activeDrivers = 1
    /\ analytics.pendingDrivers = 0

(* C16 as stated: with the commission rate undefined the rate resolves to  *)
(* zero: totalCommission is 0 and netRevenue is totalGross.                *)
C16_Original ==
    settings.commissionRate.t = "undefined" =>
        /\ analytics.totalCommission = 0
        /\ analytics.netRevenue = analytics.totalGross

(* C16 amended: with the commission rate undefined the rate resolves to    *)
(* 0.13: totalCommission is totalGross * 13 / 100 rounded to the nearest   *)
(* integer (a half toward +infinity) and netRevenue is totalGross less     *)
(* that; both are 0 only when totalGross rounds to no commission.          *)
C16_UndefinedRateIsThirteenPercent ==
    settings.commissionRate.t = "undefined" =>
        LET g == analytics.totalGross
            c == analytics.totalCommission
        IN
        /\ (2 * c - 1) * 100 <= 2 * 13 * g
        /\ 2 * 13 * g < (2 * c + 1) * 100
        /\ analytics.netRevenue = g - c

(* The store's settings record carries no rate: of a gross of 80 the       *)
(* commission is 10 and the net revenue 70.                                *)
C16_Witness ==
    /\ settings.commissionRate = UndefinedRate
    /\ analytics.totalGross = 80
    /\ analytics.totalCommission = 10
    /\ analytics.netRevenue = 70

(* C18: a run of the memo leaves its inputs as they were: once all its     *)
(* array calls have returned, the booking array and the driver array hold  *)
(* the same elements in the same order with the same field values (the     *)
(* sorts and the reverse worked on arrays of the run's own), and the       *)
(* settings object, which the run only reads, is the one it was given.     *)
C18_InputsNotMutated ==
    LET calls == ArrayCalls(bookings, drivers, timeRange, now)
    IN
    /\ StoreAfter("bookings", calls) = bookings
    /\ StoreAfter("drivers", calls) = drivers
    /\ calls[9].items = analytics.topDrivers
    /\ calls[13].items = analytics.topRoutes
    /\ calls[16].items = analytics.trendData

(* A run whose filters drop bookings and a driver and whose reverse and    *)
(* sort change the order of their arrays: the series differs from the one  *)
(* the map produced and the ranking from the enumeration of the groups,    *)
(* and the inputs still hold what they held.                               *)
C18_Witness ==
    LET calls == ArrayCalls(bookings, drivers, timeRange, now)
    IN
    /\ Len(bookings) = 2
    /\ Len(drivers) = 2
    /\ Len(calls[5].items) < Len(bookings)
    /\ Len(calls[17].items) < Len(drivers)
    /\ calls[16].items # calls[15].items
    /\ calls[8].items # calls[7].items
    /\ StoreAfter("bookings", calls) = bookings
    /\ StoreAfter("drivers", calls) = drivers

(* C19 as stated: the summary depends on the bookings, the drivers, the    *)
(* commission rate and the time range only: the summary the memo returned  *)
(* for them is the summary an invocation made now on the same four inputs  *)
(* returns.                                                                *)
C19_Original ==
    analytics = Analytics(bookings, drivers, settings, timeRange, Finite(clock))

(* C19 amended: the summary depends on the four inputs and on the time     *)
(* the invocation reads from the clock.  The summary held is that of the   *)
(* four inputs at the time the memo read; under ALL the time does not      *)
(* matter, and invocations on the same four inputs at any two times        *)
(* return the same summary.                                                *)
C19_SummaryDependsOnClock ==
    /\ analytics = Analytics(bookings, drivers, settings, timeRange, now)
    /\ timeRange = "ALL" =>
          \A t \in ClockValues :
              Analytics(bookings, drivers, settings, timeRange, Finite(t)) = analytics

(* The memo ran at noon and the clock has reached midnight: under ALL an   *)
(* invocation now returns the summary held, although the bookings of       *)
(* today are no longer those of the day the memo saw.                      *)
C19_Witness ==
    /\ timeRange = "ALL"
    /\ now = Finite(Noon)
    /\ clock = Midnight
    /\ analytics.totalBookings >= 2
    /\ FilteredBookings(bookings, "TODAY", Finite(clock))
          # FilteredBookings(bookings, "TODAY", now)
    /\ FilteredBookings(bookings, "MONTH", Finite(clock))
          # FilteredBookings(bookings, "MONTH", now)

(* C20: with no bookings, whatever the time range and the commission       *)
(* rate, every count and every amount of the summary is 0 and the three    *)
(* lists are empty.                                                        *)
C20_EmptyCollection ==
    bookings = <<>> =>
        /\ analytics.totalBookings = 0
        /\ analytics.confirmedCount = 0
        /\ analytics.pendingCount = 0
        /\ analytics.cancelledCount = 0
        /\ analytics.totalGross = 0
        /\ analytics.totalCommission = 0
        /\ analytics.netRevenue = 0
        /\ analytics.aov = 0
        /\ analytics.topDrivers = <<>>
        /\ analytics.topRoutes = <<>>
        /\ analytics.trendData = <<>>

(* No bookings, the range MONTH, the rate undefined, and a driver who is   *)
(* counted all the same.                                                   *)
C20_Witness ==
    /\ bookings = <<>>
    /\ timeRange = "MONTH"
    /\ settings.commissionRate = UndefinedRate
    /\ analytics.totalCommission = 0
    /\ analytics.trendData = <<>>
    /\ analytics.activeDrivers = 1

----------------------------------------------------------------------------
(* Properties of the settings. *)

(* C21: in every state of the dashboard, the commission of the summary is  *)
(* the one computed from the summary's gross with the commission rate of   *)
(* the stored settings record.  (Violated: the memo computes with the      *)
(* settings form, which holds 0.13 until the SETTINGS tab is opened and    *)
(* any unsaved edit afterwards.)                                           *)
C21_Original ==
    analytics.totalCommission =
        TotalCommission(analytics.totalGross,
                        Commission([commissionRate |-> db.settings.commissionRate]))

----------------------------------------------------------------------------
(* Properties of App. *)

(* The memo of a mounted dashboard has run on the collections App holds;   *)
(* the drivers may have been sorted since.                                 *)
SummaryIsCurrent ==
    currentView = "ADMIN_DASHBOARD" =>
        analytics = Analytics(bookings, drivers, settings, timeRange, now)

(* C22: the summary of a mounted dashboard is never computed from the      *)
(* drivers of one run of initData and the bookings of an earlier run.      *)
(* (Violated: App renders between setDrivers and setBookings, and the mix  *)
(* stays when the fetch of the bookings rejects.)                          *)
C22_Original ==
    (currentView = "ADMIN_DASHBOARD" /\ SummaryIsCurrent /\ loadedBy.bookings >= 1)
        => loadedBy.drivers <= loadedBy.bookings

(* The run of initData that ends in this step, and whether its fetches     *)
(* all resolved.                                                           *)
LoadEnds == Cardinality(loads') < Cardinality(loads)
LoadSucceeds == loadedBy'.bookings # loadedBy.bookings

C25_Original == currentView = "DRIVER_DASHBOARD" => Truthy(loggedInDriverId)

(* C26: the view leaves ADMIN_DASHBOARD for ADMIN_LOGIN only (a logout).   *)
(* (Violated: a reload that succeeds while the browser holds a driver      *)
(* session sets the view to DRIVER_DASHBOARD.)                             *)
C26_Original ==
    [][currentView = "ADMIN_DASHBOARD"
          => currentView' \in {"ADMIN_DASHBOARD", "ADMIN_LOGIN"}]_vars

(* C27: when no run of initData is in flight and the fetches of the run    *)
(* that started last all resolved, the tours, drivers and bookings of App  *)
(* are those that run fetched.  (Violated: an older run that resumes later *)
(* sets the state last.)                                                   *)
C27_Original ==
    (loads = {} /\ loadCount = loadedBy.completed)
        => /\ loadedBy.tours = loadCount
           /\ loadedBy.drivers = loadCount
           /\ loadedBy.bookings = loadCount

(* The collections App holds when a fetch has failed are in this step      *)
(* those it held before.                                                   *)
FailureKeepsCollections ==
    (LoadEnds /\ ~LoadSucceeds)
        => /\ tours' = tours
           /\ drivers' = drivers
           /\ bookings' = bookings
           /\ systemSettings' = systemSettings

(* C28: under the fair specification isDataLoaded becomes true, whether    *)
(* the fetches resolve or reject; it never becomes false again; and a run  *)
(* that ends in a rejected fetch leaves the collections as they were.      *)
C28_LoadedEventuallyAndForGood ==
    /\ <>isDataLoaded
    /\ [][isDataLoaded => isDataLoaded']_vars
    /\ [][FailureKeepsCollections]_vars

(* The first load failed at the fetch of the bookings: the data counts as  *)
(* loaded, the drivers are those fetched and the bookings are still the    *)
(* initial empty array.                                                    *)
C28_Witness ==
    /\ isDataLoaded
    /\ loads = {}
    /\ loadCount = 1
    /\ loadedBy.drivers = 1
    /\ loadedBy.bookings = 0
    /\ drivers # <<>>
    /\ bookings = <<>>

----------------------------------------------------------------------------
(* Properties of the handlers and of the driver table. *)

(* C23: a call of the store that rejected has led to an alert of failure,  *)
(* and an alert of success is shown for a resolved call only.  (Violated:  *)
(* handleDocumentDelete and handleAssignDriver await the store without a   *)
(* catch block and show nothing.)                                          *)
C23_Original ==
    /\ callStatus.status = "rejected" => alerts = "failure"
    /\ alerts = "success" => callStatus.status = "resolved"

(* C29: a step that changes the sort direction or the tab, and so runs     *)
(* processedDrivers, leaves localDrivers and the drivers prop as they      *)
(* were, in content and in order.  (Violated: the sort is in place, on     *)
(* localDrivers itself and, through it, on the drivers prop.)              *)
C29_Original ==
    [][(driverSortDir' # driverSortDir \/ activeTab' # activeTab)
          => (localDrivers'.items = localDrivers.items /\ drivers' = drivers)]_vars

(* C30: when the store resolves the call of handleDocumentDelete, the      *)
(* records it holds differ from those it held in the documents of drivers  *)
(* only.  (Violated: the record passed to the store is the localDrivers    *)
(* element, unsaved edits of its other fields included.)                   *)
C30_Original ==
    [][(callStatus.handler = "documentDelete" /\ callStatus.status = "pending"
            /\ callStatus'.status = "resolved")
          => /\ Len(db'.drivers) = Len(db.drivers)
             /\ \A i \in 1..Len(db.drivers) :
                   [db'.drivers[i] EXCEPT !.documents = db.drivers[i].documents]
                       = db.drivers[i]]_vars

====
